---- MODULE Spec2Model ----
(***************************************************************************)
(* The image-document field extraction pipeline of                         *)
(* backend/core/form_processor/pdf_processor.py (PDFFormProcessor), and   *)
(* the processor factory of backend/core/form_processor/factory.py.        *)
(*                                                                         *)
(* A text is a sequence of one-character strings; the regular expressions  *)
(* of the rule catalog are kept as data (alternatives of literals and the  *)
(* few repetition items the source patterns use) and matched the way       *)
(* Python's re module matches them.                                        *)
(***************************************************************************)
EXTENDS Integers, Sequences, FiniteSets, TLC

\* ----------------------------------------------------------------- state

VARIABLES
    pytesseract,      \* self.pytesseract: "None" or "module"
    pdf2image,        \* self.pdf2image
    cv2,              \* self.cv2
    np,               \* self.np
    tesseract_cmd,    \* pytesseract.pytesseract.tesseract_cmd, of the one module
    pc,               \* where each processor's extract_fields is; "returned" and
                      \* "raised" are its two ends, "idle" is no call in progress
    pdf_bytes,        \* the argument of the call
    images,           \* the locals of extract_fields
    i,
    processed_img,
    all_text,
    all_field_boxes,
    text_fields,
    result,           \* the dict returned
    error,            \* the message of the exception raised
    previous,         \* the result the caller keeps when it repeats a call
    content_type,     \* the argument of the factory's last get_processor call
    processor,        \* what that call returned, or the exception it raised
    returned,         \* the processors the factory has returned, in order
    guessed,          \* the _guess_field_type calls made on their own, in order
    external          \* the calls each extract_fields call has made so far to the
                      \* rasterizer, OpenCV and Tesseract: <<callee, page, command>>

\* ------------------------------------------------------------------ text

UpperChars == <<"A", "B", "C", "D", "E", "F", "G", "H", "I", "J", "K", "L", "M",
                "N", "O", "P", "Q", "R", "S", "T", "U", "V", "W", "X", "Y", "Z">>

LowerChars == <<"a", "b", "c", "d", "e", "f", "g", "h", "i", "j", "k", "l", "m",
                "n", "o", "p", "q", "r", "s", "t", "u", "v", "w", "x", "y", "z">>

UpperSet == {UpperChars[k] : k \in 1..26}

ToLower == [c \in UpperSet |-> LowerChars[CHOOSE k \in 1..26 : UpperChars[k] = c]]

\* one character of str.lower()
LowerChar(c) == IF c \in UpperSet THEN ToLower[c] ELSE c

\* str.lower()
Lower(s) == [k \in 1..Len(s) |-> LowerChar(s[k])]

\* the least element of a nonempty set of integers
Min(S) == CHOOSE x \in S : \A y \in S : x <= y

\* the characters \s matches (and str.strip() removes)
Whitespace == {" ", "\t", "\n", "\r", "\f"}

RECURSIVE StripLeft(_)
StripLeft(s) ==
    IF s # <<>> /\ Head(s) \in Whitespace THEN StripLeft(Tail(s)) ELSE s

RECURSIVE StripRight(_)
StripRight(s) ==
    IF s # <<>> /\ s[Len(s)] \in Whitespace
    THEN StripRight(SubSeq(s, 1, Len(s) - 1))
    ELSE s

\* str.strip()
Strip(s) == StripRight(StripLeft(s))

\* needle in haystack, for two texts
Contains(haystack, needle) ==
    \E k \in 0..(Len(haystack) - Len(needle)) :
        SubSeq(haystack, k + 1, k + Len(needle)) = needle

\* the Python str a sequence of characters stands for
RECURSIVE Str(_)
Str(s) == IF s = <<>> THEN "" ELSE Head(s) \o Str(Tail(s))

\* sep.join(blocks)
RECURSIVE Join(_, _)
Join(sep, blocks) ==
    IF blocks = <<>> THEN <<>>
    ELSE IF Len(blocks) = 1 THEN blocks[1]
    ELSE blocks[1] \o sep \o Join(sep, Tail(blocks))

\* ------------------------------------------------------- regular expressions

\* pattern items other than a literal character
WS == "\\s*"
OptDashDot == "[\\-\\.]?"
OptDashWs == "[\\-\\s]?"
OptApos == "\\'?"

\* the position after the longest run of characters of set starting at pos
SkipIn(text, pos, set) ==
    Min({j \in pos..(Len(text) + 1) : j > Len(text) \/ text[j] \notin set})

\* [^\n]*: the position of the next line break at or after pos, or the end
SkipLine(text, pos) ==
    Min({j \in pos..(Len(text) + 1) : j > Len(text) \/ text[j] = "\n"})

\* an optional item [set]? at pos (greedy; the item after it is never in set)
SkipOpt(text, pos, set) == IF pos <= Len(text) /\ text[pos] \in set THEN pos + 1 ELSE pos

\* One alternative matched at position pos under (?pos): the position after the
\* match, or 0 when it does not match there.
RECURSIVE MatchItems(_, _, _, _)
MatchItems(items, k, text, pos) ==
    IF k > Len(items) THEN pos
    ELSE LET it == items[k] IN
         CASE it = WS -> MatchItems(items, k + 1, text, SkipIn(text, pos, Whitespace))
           [] it = OptDashDot -> MatchItems(items, k + 1, text, SkipOpt(text, pos, {"-", "."}))
           [] it = OptDashWs ->
                MatchItems(items, k + 1, text, SkipOpt(text, pos, {"-"} \cup Whitespace))
           [] it = OptApos -> MatchItems(items, k + 1, text, SkipOpt(text, pos, {"'"}))
           [] OTHER ->
                IF pos <= Len(text) /\ LowerChar(text[pos]) = it
                THEN MatchItems(items, k + 1, text, pos + 1)
                ELSE 0

\* The group (a1|a2|...) at position pos: alternatives are tried left to right
\* and the first that matches is taken (what follows the group can match the
\* empty string, so no later alternative is ever preferred).
RECURSIVE MatchAlts(_, _, _, _)
MatchAlts(alts, a, text, pos) ==
    IF a > Len(alts) THEN 0
    ELSE LET e == MatchItems(alts[a], 1, text, pos) IN
         IF e # 0 THEN e ELSE MatchAlts(alts, a + 1, text, pos)

\* re.search(pattern, text) is not None, for a pattern (?pos)(a1|a2|...)
re_search(alts, text) == \E pos \in 1..Len(text) : MatchAlts(alts, 1, text, pos) # 0

\* the positions at or after pos where the group (a1|a2|...) matches
MatchStarts(alts, text, pos) == {j \in pos..Len(text) : MatchAlts(alts, 1, text, j) # 0}

\* re.finditer(pattern, text) for a pattern (?pos)(a1|...)[\s\:]*([^\n]*): the
\* non-overlapping matches from position pos on, leftmost first, each with
\* match.start() (0-based), group(1) and group(2).
RECURSIVE re_finditer(_, _, _)
re_finditer(alts, text, pos) ==
    LET starts == MatchStarts(alts, text, pos) IN
    IF starts = {} THEN <<>>
    ELSE LET s == Min(starts)
             e == MatchAlts(alts, 1, text, s)
             j == SkipIn(text, e, Whitespace \cup {":"})
             k == SkipLine(text, j)
         IN  <<[start |-> s - 1,
                group1 |-> SubSeq(text, s, e - 1),
                group2 |-> SubSeq(text, j, k - 1)]>>
             \o re_finditer(alts, text, k)

\* ------------------------------------------------------------ rule catalogs

\* self.field_patterns, in the order of the dict
field_patterns ==
    << \* name: (full\s*name|first\s*name|last\s*name|middle\s*name|name)
      [name |-> "name", alts |-> <<
          <<"f", "u", "l", "l", WS, "n", "a", "m", "e">>,
          <<"f", "i", "r", "s", "t", WS, "n", "a", "m", "e">>,
          <<"l", "a", "s", "t", WS, "n", "a", "m", "e">>,
          <<"m", "i", "d", "d", "l", "e", WS, "n", "a", "m", "e">>,
          <<"n", "a", "m", "e">>
      >>],
       \* email: (e[\-\.]?mail\s*address|e[\-\.]?mail)
      [name |-> "email", alts |-> <<
          <<"e", OptDashDot, "m", "a", "i", "l", WS, "a", "d", "d", "r", "e", "s", "s">>,
          <<"e", OptDashDot, "m", "a", "i", "l">>
      >>],
       \* phone: (phone|telephone|mobile|cell|contact)
      [name |-> "phone", alts |-> <<
          <<"p", "h", "o", "n", "e">>,
          <<"t", "e", "l", "e", "p", "h", "o", "n", "e">>,
          <<"m", "o", "b", "i", "l", "e">>,
          <<"c", "e", "l", "l">>,
          <<"c", "o", "n", "t", "a", "c", "t">>
      >>],
       \* address: (street\s*address|mailing\s*address|address|city|state|zip|postal\s*code)
      [name |-> "address", alts |-> <<
          <<"s", "t", "r", "e", "e", "t", WS, "a", "d", "d", "r", "e", "s", "s">>,
          <<"m", "a", "i", "l", "i", "n", "g", WS, "a", "d", "d", "r", "e", "s", "s">>,
          <<"a", "d", "d", "r", "e", "s", "s">>,
          <<"c", "i", "t", "y">>,
          <<"s", "t", "a", "t", "e">>,
          <<"z", "i", "p">>,
          <<"p", "o", "s", "t", "a", "l", WS, "c", "o", "d", "e">>
      >>],
       \* date: (date|birth\s*date|dob|expiration|start\s*date|end\s*date)
      [name |-> "date", alts |-> <<
          <<"d", "a", "t", "e">>,
          <<"b", "i", "r", "t", "h", WS, "d", "a", "t", "e">>,
          <<"d", "o", "b">>,
          <<"e", "x", "p", "i", "r", "a", "t", "i", "o", "n">>,
          <<"s", "t", "a", "r", "t", WS, "d", "a", "t", "e">>,
          <<"e", "n", "d", WS, "d", "a", "t", "e">>
      >>],
       \* ssn: (ssn|social\s*security|tax\s*id|itin)
      [name |-> "ssn", alts |-> <<
          <<"s", "s", "n">>,
          <<"s", "o", "c", "i", "a", "l", WS, "s", "e", "c", "u", "r", "i", "t", "y">>,
          <<"t", "a", "x", WS, "i", "d">>,
          <<"i", "t", "i", "n">>
      >>],
       \* id: (id\s*number|identification|passport|driver\'?s\s*license)
      [name |-> "id", alts |-> <<
          <<"i", "d", WS, "n", "u", "m", "b", "e", "r">>,
          <<"i", "d", "e", "n", "t", "i", "f", "i", "c", "a", "t", "i", "o", "n">>,
          <<"p", "a", "s", "s", "p", "o", "r", "t">>,
          <<"d", "r", "i", "v", "e", "r", OptApos, "s", WS, "l", "i", "c", "e", "n", "s", "e">>
      >>],
       \* gender: (gender|sex)
      [name |-> "gender", alts |-> <<
          <<"g", "e", "n", "d", "e", "r">>,
          <<"s", "e", "x">>
      >>],
       \* nationality: (nationality|citizenship|country)
      [name |-> "nationality", alts |-> <<
          <<"n", "a", "t", "i", "o", "n", "a", "l", "i", "t", "y">>,
          <<"c", "i", "t", "i", "z", "e", "n", "s", "h", "i", "p">>,
          <<"c", "o", "u", "n", "t", "r", "y">>
      >>],
       \* occupation: (occupation|job\s*title|profession)
      [name |-> "occupation", alts |-> <<
          <<"o", "c", "c", "u", "p", "a", "t", "i", "o", "n">>,
          <<"j", "o", "b", WS, "t", "i", "t", "l", "e">>,
          <<"p", "r", "o", "f", "e", "s", "s", "i", "o", "n">>
      >>],
       \* income: (income|salary|earnings|wages)
      [name |-> "income", alts |-> <<
          <<"i", "n", "c", "o", "m", "e">>,
          <<"s", "a", "l", "a", "r", "y">>,
          <<"e", "a", "r", "n", "i", "n", "g", "s">>,
          <<"w", "a", "g", "e", "s">>
      >>],
       \* education: (education|degree|qualification)
      [name |-> "education", alts |-> <<
          <<"e", "d", "u", "c", "a", "t", "i", "o", "n">>,
          <<"d", "e", "g", "r", "e", "e">>,
          <<"q", "u", "a", "l", "i", "f", "i", "c", "a", "t", "i", "o", "n">>
      >>],
       \* signature: (signature|sign\s*here)
      [name |-> "signature", alts |-> <<
          <<"s", "i", "g", "n", "a", "t", "u", "r", "e">>,
          <<"s", "i", "g", "n", WS, "h", "e", "r", "e">>
      >>]
    >>

\* self.form_type_patterns, in the order of the dict
form_type_patterns ==
    << \* tax: (irs|tax\s*return|tax\s*form|w[\-\s]?9|w[\-\s]?2|1040|1099)
      [name |-> "tax", alts |-> <<
          <<"i", "r", "s">>,
          <<"t", "a", "x", WS, "r", "e", "t", "u", "r", "n">>,
          <<"t", "a", "x", WS, "f", "o", "r", "m">>,
          <<"w", OptDashWs, "9">>,
          <<"w", OptDashWs, "2">>,
          <<"1", "0", "4", "0">>,
          <<"1", "0", "9", "9">>
      >>],
       \* medical: (health\s*insurance|patient|medical\s*history|diagnosis|prescription)
      [name |-> "medical", alts |-> <<
          <<"h", "e", "a", "l", "t", "h", WS, "i", "n", "s", "u", "r", "a", "n", "c", "e">>,
          <<"p", "a", "t", "i", "e", "n", "t">>,
          <<"m", "e", "d", "i", "c", "a", "l", WS, "h", "i", "s", "t", "o", "r", "y">>,
          <<"d", "i", "a", "g", "n", "o", "s", "i", "s">>,
          <<"p", "r", "e", "s", "c", "r", "i", "p", "t", "i", "o", "n">>
      >>],
       \* employment: (employment|job\s*application|work\s*history|resume|cv)
      [name |-> "employment", alts |-> <<
          <<"e", "m", "p", "l", "o", "y", "m", "e", "n", "t">>,
          <<"j", "o", "b", WS, "a", "p", "p", "l", "i", "c", "a", "t", "i", "o", "n">>,
          <<"w", "o", "r", "k", WS, "h", "i", "s", "t", "o", "r", "y">>,
          <<"r", "e", "s", "u", "m", "e">>,
          <<"c", "v">>
      >>],
       \* banking: (bank\s*account|direct\s*deposit|routing\s*number|account\s*number)
      [name |-> "banking", alts |-> <<
          <<"b", "a", "n", "k", WS, "a", "c", "c", "o", "u", "n", "t">>,
          <<"d", "i", "r", "e", "c", "t", WS, "d", "e", "p", "o", "s", "i", "t">>,
          <<"r", "o", "u", "t", "i", "n", "g", WS, "n", "u", "m", "b", "e", "r">>,
          <<"a", "c", "c", "o", "u", "n", "t", WS, "n", "u", "m", "b", "e", "r">>
      >>],
       \* immigration: (uscis|visa|passport|i[\-\s]?94|i[\-\s]?551|green\s*card)
      [name |-> "immigration", alts |-> <<
          <<"u", "s", "c", "i", "s">>,
          <<"v", "i", "s", "a">>,
          <<"p", "a", "s", "s", "p", "o", "r", "t">>,
          <<"i", OptDashWs, "9", "4">>,
          <<"i", OptDashWs, "5", "5", "1">>,
          <<"g", "r", "e", "e", "n", WS, "c", "a", "r", "d">>
      >>],
       \* consent: (consent\s*form|release\s*form|authorization|permission)
      [name |-> "consent", alts |-> <<
          <<"c", "o", "n", "s", "e", "n", "t", WS, "f", "o", "r", "m">>,
          <<"r", "e", "l", "e", "a", "s", "e", WS, "f", "o", "r", "m">>,
          <<"a", "u", "t", "h", "o", "r", "i", "z", "a", "t", "i", "o", "n">>,
          <<"p", "e", "r", "m", "i", "s", "s", "i", "o", "n">>
      >>],
       \* application: (application|apply|form|request)
      [name |-> "application", alts |-> <<
          <<"a", "p", "p", "l", "i", "c", "a", "t", "i", "o", "n">>,
          <<"a", "p", "p", "l", "y">>,
          <<"f", "o", "r", "m">>,
          <<"r", "e", "q", "u", "e", "s", "t">>
      >>]
    >>
\* ------------------------------------------------------------------- inputs

\* the most pages a document has
MaxPages == 2

\* OCR outputs of a page
TEXT_EMPTY == <<>>

\* "Full Name: John Smith\nEmail Address: john@example.com"
TEXT_NAME_EMAIL ==
    <<"F", "u", "l", "l", " ", "N", "a", "m", "e", ":", " ", "J", "o", "h", "n", " ",
      "S", "m", "i", "t", "h", "\n", "E", "m", "a", "i", "l", " ", "A", "d", "d", "r",
      "e", "s", "s", ":", " ", "j", "o", "h", "n", "@", "e", "x", "a", "m", "p", "l",
      "e", ".", "c", "o", "m">>

\* "Signature *\nRelease Form"
TEXT_SIGNATURE ==
    <<"S", "i", "g", "n", "a", "t", "u", "r", "e", " ", "*", "\n", "R", "e", "l", "e",
      "a", "s", "e", " ", "F", "o", "r", "m">>

\* "Routing Number: 12\nDirect Deposit"
TEXT_BANKING ==
    <<"R", "o", "u", "t", "i", "n", "g", " ", "N", "u", "m", "b", "e", "r", ":", " ",
      "1", "2", "\n", "D", "i", "r", "e", "c", "t", " ", "D", "e", "p", "o", "s", "i",
      "t">>

\* "W-9 Tax Form"
TEXT_TAX == <<"W", "-", "9", " ", "T", "a", "x", " ", "F", "o", "r", "m">>

\* "Patient resume"
TEXT_PATIENT == <<"P", "a", "t", "i", "e", "n", "t", " ", "r", "e", "s", "u", "m", "e">>

\* "Passport request"
TEXT_PASSPORT ==
    <<"P", "a", "s", "s", "p", "o", "r", "t", " ", "r", "e", "q", "u", "e", "s", "t">>

\* "Job Application"
TEXT_JOB == <<"J", "o", "b", " ", "A", "p", "p", "l", "i", "c", "a", "t", "i", "o", "n">>

\* "Request"
TEXT_REQUEST == <<"R", "e", "q", "u", "e", "s", "t">>

\* "Date:\nStart Date 1/2 \nDOB"
TEXT_DATES ==
    <<"D", "a", "t", "e", ":", "\n", "S", "t", "a", "r", "t", " ", "D", "a", "t", "e",
      " ", "1", "/", "2", " ", "\n", "D", "O", "B">>

\* a page text that is not a str but a bytes object, as an OCR wrapper set to
\* raw output hands back: re.finditer(pattern, block) raises TypeError on it
TEXT_BYTES == <<"b'Name'">>

PageTexts ==
    {TEXT_EMPTY, TEXT_NAME_EMAIL, TEXT_SIGNATURE, TEXT_BANKING, TEXT_TAX,
     TEXT_PATIENT, TEXT_PASSPORT, TEXT_JOB, TEXT_REQUEST, TEXT_DATES, TEXT_BYTES}

\* re.finditer of every rule of the catalog on one text, from rule p on
RECURSIVE FinditerAll(_, _)
FinditerAll(text, p) ==
    IF p > Len(field_patterns) THEN <<>>
    ELSE <<re_finditer(field_patterns[p].alts, text, 1)>> \o FinditerAll(text, p + 1)

\* The matches of a rule are a function of the rule and the text alone: those
\* of the page texts above are computed once, as pairs <<text, matches per rule>>,
\* and looked up afterwards.
FinditerOfPageTexts == {<<t, FinditerAll(t, 1)>> : t \in PageTexts}

\* "\n".join(all_text).lower() of every document of at most MaxPages pages
DocumentTexts ==
    {Lower(Join(<<"\n">>, ts)) : ts \in UNION {[1..n -> PageTexts] : n \in 0..MaxPages}}

\* re.search of every category pattern on one text, from category k on
RECURSIVE SearchAll(_, _)
SearchAll(text, k) ==
    IF k > Len(form_type_patterns) THEN <<>>
    ELSE <<re_search(form_type_patterns[k].alts, text)>> \o SearchAll(text, k + 1)

\* likewise for the category patterns and the document texts
SearchOfDocumentTexts == {<<t, SearchAll(t, 1)>> : t \in DocumentTexts}


\* ------------------------------------------------------- field type guesser

field_type_map ==
    [email |-> "email", phone |-> "tel", date |-> "date", password |-> "password",
     address |-> "text", ssn |-> "text", name |-> "text", id |-> "text",
     gender |-> "select", nationality |-> "text", occupation |-> "text",
     income |-> "number", education |-> "text", signature |-> "text"]

\* field_type_map.get(key) without a default: None for a key that is not there
field_type_map_get_no_default(key) ==
    IF key \in DOMAIN field_type_map THEN field_type_map[key] ELSE "None"

\* field_type_map.get(key, "text")
field_type_map_get(key) ==
    IF key \in DOMAIN field_type_map THEN field_type_map[key] ELSE "text"

\* field_name is the str as a sequence of characters
_guess_field_type(field_name) == field_type_map_get(Str(Lower(field_name)))

\* the characters of the keys of field_patterns
rule_name_chars ==
    [name |-> <<"n", "a", "m", "e">>,
     email |-> <<"e", "m", "a", "i", "l">>,
     phone |-> <<"p", "h", "o", "n", "e">>,
     address |-> <<"a", "d", "d", "r", "e", "s", "s">>,
     date |-> <<"d", "a", "t", "e">>,
     ssn |-> <<"s", "s", "n">>,
     id |-> <<"i", "d">>,
     gender |-> <<"g", "e", "n", "d", "e", "r">>,
     nationality |-> <<"n", "a", "t", "i", "o", "n", "a", "l", "i", "t", "y">>,
     occupation |-> <<"o", "c", "c", "u", "p", "a", "t", "i", "o", "n">>,
     income |-> <<"i", "n", "c", "o", "m", "e">>,
     education |-> <<"e", "d", "u", "c", "a", "t", "i", "o", "n">>,
     signature |-> <<"s", "i", "g", "n", "a", "t", "u", "r", "e">>]

\* -------------------------------------------------------- text field matcher

\* confidences are kept in tenths: 7 is 0.7, 5 is 0.5
OCR_FIELD_CONFIDENCE == 7

VISUAL_FIELD_CONFIDENCE == 5

DOCUMENT_CONFIDENCE == 7

\* "confidence": 1.0 of the HTML processor's result
HTML_CONFIDENCE == 10

\* the dict HTMLFormProcessor._extract_form_fields returns for the fields of
\* the input elements it processed
_extract_form_fields(fields) ==
    [form_type |-> "html", fields |-> fields, confidence |-> HTML_CONFIDENCE]

\* "*" in label or "required" in label.lower()
IsRequired(label) ==
    \/ Contains(label, <<"*">>)
    \/ Contains(Lower(label), <<"r", "e", "q", "u", "i", "r", "e", "d">>)

\* the dict appended for one match; an offset position is the 1-tuple <<pos>>
TextField(field_type, page_idx, match) ==
    LET label == Strip(match.group1)
        value == Strip(match.group2)
    IN  [name |-> field_type,
         label |-> Str(label),
         type |-> _guess_field_type(rule_name_chars[field_type]),
         value |-> Str(value),
         page |-> page_idx + 1,
         position |-> <<match.start>>,
         required |-> IsRequired(label),
         confidence |-> OCR_FIELD_CONFIDENCE]

\* re.finditer(pattern, block) for rule p of the catalog
finditer(p, block) ==
    IF block \in PageTexts
    THEN (CHOOSE e \in FinditerOfPageTexts : e[1] = block)[2][p]
    ELSE re_finditer(field_patterns[p].alts, block, 1)

\* the inner loop: every match of one rule in one block
FieldsOfPattern(block, page_idx, p) ==
    LET matches == finditer(p, block)
    IN  [k \in 1..Len(matches) |->
            TextField(field_patterns[p].name, page_idx, matches[k])]

\* the loop dropping a candidate whose value an earlier rule already gave
RECURSIVE FieldsOfBlock_dedup(_, _, _)
FieldsOfBlock_dedup(block, page_idx, p) ==
    IF p > Len(field_patterns) THEN <<>>
    ELSE LET own == FieldsOfPattern(block, page_idx, p)
             IsNew(field) == \A k \in 1..Len(own) : own[k].value # field.value
         IN  own \o SelectSeq(FieldsOfBlock_dedup(block, page_idx, p + 1), IsNew)

\* the loop over field_patterns.items(), from rule p on
RECURSIVE FieldsOfBlock(_, _, _)
FieldsOfBlock(block, page_idx, p) ==
    IF p > Len(field_patterns) THEN <<>>
    ELSE FieldsOfPattern(block, page_idx, p) \o FieldsOfBlock(block, page_idx, p + 1)

\* the loop over enumerate(text_blocks), from page_idx on
RECURSIVE IdentifyFrom(_, _)
IdentifyFrom(text_blocks, page_idx) ==
    IF page_idx >= Len(text_blocks) THEN <<>>
    ELSE FieldsOfBlock(text_blocks[page_idx + 1], page_idx, 1)
         \o IdentifyFrom(text_blocks, page_idx + 1)

_identify_fields(text_blocks) == IdentifyFrom(text_blocks, 0)

\* whether re.finditer raises in _identify_fields: a str pattern cannot be
\* used on a block that is not a str, and nothing in the loop catches it
finditer_raises(text_blocks) ==
    \E k \in 1..Len(text_blocks) : text_blocks[k] = TEXT_BYTES

\* ------------------------------------------------------ visual field detector

min_width == 50

min_height == 15

max_width == 500

max_height == 80

\* the size filter taking the limits themselves as valid sizes
KeepsContour_inclusive(contour) ==
    LET w == contour.rect[3]
        h == contour.rect[4]
    IN  /\ contour.vertices = 4
        /\ min_width <= w /\ w <= max_width
        /\ min_height <= h /\ h <= max_height
        /\ w > h

\* a contour is [vertices |-> len(approx), rect |-> <<x, y, w, h>>]
KeepsContour(contour) ==
    LET w == contour.rect[3]
        h == contour.rect[4]
    IN  /\ contour.vertices = 4
        /\ min_width < w /\ w < max_width
        /\ min_height < h /\ h < max_height
        /\ w > h

RECURSIVE FilterContours(_)
FilterContours(contours) ==
    IF contours = <<>> THEN <<>>
    ELSE (IF KeepsContour(Head(contours)) THEN <<Head(contours).rect>> ELSE <<>>)
         \o FilterContours(Tail(contours))

\* the detector returning, when OpenCV fails, the boxes it has collected
_detect_field_boxes_partial(image) == FilterContours(image.contours)

\* image is the binarized page: its contours, and whether OpenCV fails on it
_detect_field_boxes(image) ==
    IF image.detect_ok THEN FilterContours(image.contours) ELSE <<>>

\* ---------------------------------------------------------------- field merger

\* the merger with no duplicate check at all
matches_existing_never(fields, page_idx) == FALSE

\* the inner loop over text_fields: some text field is on the box's page
matches_existing(fields, page_idx) ==
    \E k \in 1..Len(fields) : fields[k].page = page_idx + 1

\* the box field stamped with the 0-based page index
BoxField_page_index(page_idx, box) ==
    [name |-> "field_" \o ToString(page_idx) \o "_" \o ToString(box[1])
                 \o "_" \o ToString(box[2]),
     label |-> "Unlabeled Field (" \o ToString(page_idx + 1) \o ")",
     type |-> "text",
     page |-> page_idx,
     position |-> <<box[1], box[2]>>,
     dimensions |-> <<box[3], box[4]>>,
     required |-> FALSE,
     confidence |-> VISUAL_FIELD_CONFIDENCE]

\* the box field given the confidence of a text field
BoxField_text_confidence(page_idx, box) ==
    [name |-> "field_" \o ToString(page_idx) \o "_" \o ToString(box[1])
                 \o "_" \o ToString(box[2]),
     label |-> "Unlabeled Field (" \o ToString(page_idx + 1) \o ")",
     type |-> "text",
     page |-> page_idx + 1,
     position |-> <<box[1], box[2]>>,
     dimensions |-> <<box[3], box[4]>>,
     required |-> FALSE,
     confidence |-> OCR_FIELD_CONFIDENCE]

\* the dict appended for a box with no match
BoxField(page_idx, box) ==
    [name |-> "field_" \o ToString(page_idx) \o "_" \o ToString(box[1])
                 \o "_" \o ToString(box[2]),
     label |-> "Unlabeled Field (" \o ToString(page_idx + 1) \o ")",
     type |-> "text",
     page |-> page_idx + 1,
     position |-> <<box[1], box[2]>>,
     dimensions |-> <<box[3], box[4]>>,
     required |-> FALSE,
     confidence |-> VISUAL_FIELD_CONFIDENCE]

\* the loop over field_boxes, each <<page_idx, box>>, from the k-th on
RECURSIVE MergeBoxes(_, _, _)
MergeBoxes(fields, field_boxes, k) ==
    IF k > Len(field_boxes) THEN <<>>
    ELSE (IF matches_existing(fields, field_boxes[k][1])
          THEN <<>>
          ELSE <<BoxField(field_boxes[k][1], field_boxes[k][2])>>)
         \o MergeBoxes(fields, field_boxes, k + 1)

\* the merger putting the fields of the boxes before the text fields
_merge_fields_boxes_first(fields, field_boxes) ==
    MergeBoxes(fields, field_boxes, 1) \o fields

\* fields are the text fields (the parameter text_fields)
_merge_fields(fields, field_boxes) ==
    fields \o MergeBoxes(fields, field_boxes, 1)

\* ---------------------------------------------------------- form-type classifier

\* re.search(pattern, text_lower) for category k
search(k, text_lower) ==
    IF text_lower \in DocumentTexts
    THEN (CHOOSE e \in SearchOfDocumentTexts : e[1] = text_lower)[2][k]
    ELSE re_search(form_type_patterns[k].alts, text_lower)

\* the classifier taking the last category that matches
RECURSIVE DetectFrom_last_match(_, _)
DetectFrom_last_match(text_lower, k) ==
    IF k > Len(form_type_patterns) THEN "generic_form"
    ELSE LET later == DetectFrom_last_match(text_lower, k + 1) IN
         IF later # "generic_form" THEN later
         ELSE IF search(k, text_lower) THEN form_type_patterns[k].name
         ELSE "generic_form"

\* the classifier with the generic application category as its fallback
RECURSIVE DetectFrom_application_fallback(_, _)
DetectFrom_application_fallback(text_lower, k) ==
    IF k > Len(form_type_patterns) THEN "application"
    ELSE IF search(k, text_lower)
         THEN form_type_patterns[k].name
         ELSE DetectFrom_application_fallback(text_lower, k + 1)

\* the loop over form_type_patterns.items(), from category k on
RECURSIVE DetectFrom(_, _)
DetectFrom(text_lower, k) ==
    IF k > Len(form_type_patterns) THEN "generic_form"
    ELSE IF search(k, text_lower)
         THEN form_type_patterns[k].name
         ELSE DetectFrom(text_lower, k + 1)

\* the classifier iterating the categories in alphabetical order
AlphabeticalOrder == <<7, 4, 6, 3, 5, 2, 1>>

RECURSIVE DetectAlphabetical(_, _)
DetectAlphabetical(text_lower, n) ==
    IF n > Len(AlphabeticalOrder) THEN "generic_form"
    ELSE IF search(AlphabeticalOrder[n], text_lower)
         THEN form_type_patterns[AlphabeticalOrder[n]].name
         ELSE DetectAlphabetical(text_lower, n + 1)

_detect_form_type_alphabetical(text) == DetectAlphabetical(Lower(text), 1)

_detect_form_type(text) == DetectFrom(Lower(text), 1)

\* contours of a binarized page: a field box beside the first text line, a
\* speck below the minimum size, a round mark, a field box far down the page
CONTOUR_NEAR == [vertices |-> 4, rect |-> <<100, 10, 120, 30>>]

CONTOUR_SPECK == [vertices |-> 4, rect |-> <<300, 200, 20, 10>>]

CONTOUR_ROUND == [vertices |-> 8, rect |-> <<300, 300, 120, 30>>]

CONTOUR_FAR == [vertices |-> 4, rect |-> <<100, 600, 120, 30>>]

\* quadrilaterals on the size limits, a square, and the smallest and the
\* largest quadrilateral within the limits
CONTOUR_W50 == [vertices |-> 4, rect |-> <<10, 400, 50, 30>>]

CONTOUR_W500 == [vertices |-> 4, rect |-> <<10, 450, 500, 30>>]

CONTOUR_H15 == [vertices |-> 4, rect |-> <<10, 500, 120, 15>>]

CONTOUR_H80 == [vertices |-> 4, rect |-> <<10, 520, 120, 80>>]

CONTOUR_SQUARE == [vertices |-> 4, rect |-> <<400, 400, 60, 60>>]

CONTOUR_SMALLEST == [vertices |-> 4, rect |-> <<10, 700, 51, 16>>]

CONTOUR_LARGEST == [vertices |-> 4, rect |-> <<10, 800, 499, 79>>]

\* the contours OpenCV finds on a page with boxes drawn on it
CONTOURS_DRAWN ==
    <<CONTOUR_NEAR, CONTOUR_SPECK, CONTOUR_ROUND, CONTOUR_FAR, CONTOUR_W50,
      CONTOUR_W500, CONTOUR_H15, CONTOUR_H80, CONTOUR_SQUARE, CONTOUR_SMALLEST,
      CONTOUR_LARGEST>>

ContourLists == {<<>>, CONTOURS_DRAWN}

\* A page image, by what the collaborators make of it: whether OpenCV
\* preprocesses it, whether Tesseract reads it and the text it reads, whether
\* contour detection works on it and the contours it finds.
PageImages ==
    {[enhance_ok |-> FALSE, ocr_ok |-> TRUE, text |-> TEXT_EMPTY,
      detect_ok |-> TRUE, contours |-> <<>>],
     [enhance_ok |-> TRUE, ocr_ok |-> FALSE, text |-> TEXT_EMPTY,
      detect_ok |-> TRUE, contours |-> <<>>]}
    \cup {[enhance_ok |-> TRUE, ocr_ok |-> TRUE, text |-> t,
           detect_ok |-> FALSE, contours |-> CONTOURS_DRAWN] : t \in PageTexts}
    \cup {[enhance_ok |-> TRUE, ocr_ok |-> TRUE, text |-> t,
           detect_ok |-> TRUE, contours |-> c] : t \in PageTexts, c \in ContourLists}

\* the bytes poppler cannot read; also the value of pdf_bytes between calls
NoDocument == [raster_ok |-> FALSE, pages |-> <<>>]

\* A document, by what poppler makes of its bytes: a rasterization failure, or
\* its page images in order.
Documents ==
    {NoDocument}
    \cup {[raster_ok |-> TRUE, pages |-> ps] :
            ps \in UNION {[1..n -> PageImages] : n \in 0..MaxPages}}

\* ------------------------------------------------------------------- state

Procs == {1, 2}

\* the constructor's tesseract_path of each processor
tesseract_path == <<"/opt/homebrew/bin/tesseract", "/usr/bin/tesseract">>

NoResult == [form_type |-> "", fields |-> <<>>, page_count |-> -1,
             text_content |-> <<>>, confidence |-> -1]

NoImage == [enhance_ok |-> FALSE, ocr_ok |-> FALSE, text |-> <<>>,
            detect_ok |-> FALSE, contours |-> <<>>]

handles == <<pytesseract, pdf2image, cv2, np, tesseract_cmd>>

locals == <<images, i, processed_img, all_text, all_field_boxes, text_fields>>

factory == <<content_type, processor, returned>>

\* the value None of a form_type argument
None == <<"None">>

\* no get_processor call yet
NoProcessor == [class |-> "None", id |-> 0, raised |-> ""]

vars == <<pytesseract, pdf2image, cv2, np, tesseract_cmd, pc, pdf_bytes, images, i,
          processed_img, all_text, all_field_boxes, text_fields, result, error,
          previous, content_type, processor, returned, guessed, external>>

Init ==
    /\ pytesseract = [p \in Procs |-> "None"]
    /\ pdf2image = [p \in Procs |-> "None"]
    /\ cv2 = [p \in Procs |-> "None"]
    /\ np = [p \in Procs |-> "None"]
    /\ tesseract_cmd = "tesseract"
    /\ pc = [p \in Procs |-> "idle"]
    /\ pdf_bytes = [p \in Procs |-> NoDocument]
    /\ images = [p \in Procs |-> <<>>]
    /\ i = [p \in Procs |-> 0]
    /\ processed_img = [p \in Procs |-> NoImage]
    /\ all_text = [p \in Procs |-> <<>>]
    /\ all_field_boxes = [p \in Procs |-> <<>>]
    /\ text_fields = [p \in Procs |-> <<>>]
    /\ result = [p \in Procs |-> NoResult]
    /\ error = [p \in Procs |-> ""]
    /\ previous = [p \in Procs |-> NoResult]
    /\ content_type = None
    /\ processor = NoProcessor
    /\ returned = <<>>
    /\ guessed = <<>>
    /\ external = [p \in Procs |-> <<>>]

\* ----------------------------------------------------------------- actions

\* the except clauses of extract_fields: the call ends with an exception
Raise(self, message) ==
    /\ pc' = [pc EXCEPT ![self] = "raised"]
    /\ error' = [error EXCEPT ![self] = message]
    /\ UNCHANGED <<pdf_bytes, result, previous, factory, guessed>>

Goto(self, label) ==
    /\ pc' = [pc EXCEPT ![self] = label]
    /\ UNCHANGED <<pdf_bytes, result, error, previous, factory, guessed>>

\* a caller calls extract_fields(pdf_bytes)
ExtractFields(self) ==
    /\ pc[self] = "idle"
    /\ \E doc \in Documents : pdf_bytes' = [pdf_bytes EXCEPT ![self] = doc]
    /\ pc' = [pc EXCEPT ![self] =
                IF pytesseract[self] = "None" THEN "import" ELSE "convert"]
    /\ external' = [external EXCEPT ![self] = <<>>]
    /\ UNCHANGED <<handles, locals, result, error, previous, factory, guessed>>

\* _import_dependencies logging the ImportError instead of re-raising it
ImportDependencies_swallows(self) ==
    /\ pc[self] = "import"
    /\ \/ /\ pytesseract' = [pytesseract EXCEPT ![self] = "module"]
          /\ pdf2image' = [pdf2image EXCEPT ![self] = "module"]
          /\ cv2' = [cv2 EXCEPT ![self] = "module"]
          /\ np' = [np EXCEPT ![self] = "module"]
          /\ tesseract_cmd' = IF tesseract_path[self] # ""
                              THEN tesseract_path[self]
                              ELSE tesseract_cmd
       \/ UNCHANGED handles
    /\ Goto(self, "convert")
    /\ UNCHANGED <<locals, external>>

\* _import_dependencies binding each handle as soon as its import succeeds,
\* so that a later import that fails leaves the earlier handles set
ImportDependencies_partial(self) ==
    /\ pc[self] = "import"
    /\ \/ /\ pytesseract' = [pytesseract EXCEPT ![self] = "module"]
          /\ pdf2image' = [pdf2image EXCEPT ![self] = "module"]
          /\ cv2' = [cv2 EXCEPT ![self] = "module"]
          /\ np' = [np EXCEPT ![self] = "module"]
          /\ tesseract_cmd' = IF tesseract_path[self] # ""
                              THEN tesseract_path[self]
                              ELSE tesseract_cmd
          /\ Goto(self, "convert")
       \/ /\ Raise(self, "PDF processing requires additional dependencies: pytesseract, pdf2image, opencv-python")
          /\ pytesseract' = [pytesseract EXCEPT ![self] = "module"]
          /\ UNCHANGED <<pdf2image, cv2, np, tesseract_cmd>>
    /\ UNCHANGED <<locals, external>>

\* _import_dependencies: the four imports succeed together, or one raises
\* ImportError before any handle is set
ImportDependencies(self) ==
    /\ pc[self] = "import"
    /\ \/ /\ pytesseract' = [pytesseract EXCEPT ![self] = "module"]
          /\ pdf2image' = [pdf2image EXCEPT ![self] = "module"]
          /\ cv2' = [cv2 EXCEPT ![self] = "module"]
          /\ np' = [np EXCEPT ![self] = "module"]
          /\ tesseract_cmd' = IF tesseract_path[self] # ""
                              THEN tesseract_path[self]
                              ELSE tesseract_cmd
          /\ Goto(self, "convert")
       \/ /\ Raise(self, "PDF processing requires additional dependencies: pytesseract, pdf2image, opencv-python")
          /\ UNCHANGED handles
    /\ UNCHANGED <<locals, external>>

\* the two lists kept across calls instead of being rebound in each call
ConvertFromBytes_keeps_lists(self) ==
    /\ pc[self] = "convert"
    /\ \/ /\ pdf_bytes[self].raster_ok
          /\ images' = [images EXCEPT ![self] = pdf_bytes[self].pages]
          /\ i' = [i EXCEPT ![self] = 0]
          /\ Goto(self, IF pdf_bytes[self].pages = <<>> THEN "assemble" ELSE "enhance")
       \/ /\ ~pdf_bytes[self].raster_ok
          /\ Raise(self, "PDF processing error")
          /\ UNCHANGED <<images, i>>
    /\ external' = [external EXCEPT ![self] = Append(@, <<"convert_from_bytes", 0, "">>)]
    /\ UNCHANGED <<handles, processed_img, all_text, all_field_boxes, text_fields>>

\* pdf2image.convert_from_bytes, all_text = [], all_field_boxes = [] and the
\* entry of the page loop
ConvertFromBytes(self) ==
    /\ pc[self] = "convert"
    /\ \/ /\ pdf_bytes[self].raster_ok
          /\ images' = [images EXCEPT ![self] = pdf_bytes[self].pages]
          /\ all_text' = [all_text EXCEPT ![self] = <<>>]
          /\ all_field_boxes' = [all_field_boxes EXCEPT ![self] = <<>>]
          /\ i' = [i EXCEPT ![self] = 0]
          /\ Goto(self, IF pdf_bytes[self].pages = <<>> THEN "assemble" ELSE "enhance")
       \/ /\ ~pdf_bytes[self].raster_ok
          /\ Raise(self, "PDF processing error")
          /\ UNCHANGED <<images, i, all_text, all_field_boxes>>
    /\ external' = [external EXCEPT ![self] = Append(@, <<"convert_from_bytes", 0, "">>)]
    /\ UNCHANGED <<handles, processed_img, text_fields>>

\* np.array(image) and _enhance_image for page i
EnhanceImage(self) ==
    /\ pc[self] = "enhance"
    /\ LET image == images[self][i[self] + 1] IN
       \/ /\ image.enhance_ok
          /\ processed_img' = [processed_img EXCEPT ![self] = image]
          /\ Goto(self, "ocr")
       \/ /\ ~image.enhance_ok
          /\ Raise(self, "PDF processing error")
          /\ UNCHANGED processed_img
    /\ external' = [external EXCEPT ![self] = Append(@, <<"_enhance_image", i[self], "">>)]
    /\ UNCHANGED <<handles, images, i, all_text, all_field_boxes, text_fields>>

\* extract_fields trying the OCR of a page a second time when it fails
ImageToString_retries(self) ==
    /\ pc[self] = "ocr"
    /\ \/ /\ processed_img[self].ocr_ok
          /\ all_text' = [all_text EXCEPT ![self] = Append(@, processed_img[self].text)]
          /\ Goto(self, "detect")
       \/ /\ ~processed_img[self].ocr_ok
          /\ IF \E k \in 1..Len(external[self]) :
                   external[self][k] = <<"image_to_string", i[self], tesseract_cmd>>
             THEN Raise(self, "PDF processing error")
             ELSE Goto(self, "ocr")
          /\ UNCHANGED all_text
    /\ external' = [external EXCEPT ![self] =
                       Append(@, <<"image_to_string", i[self], tesseract_cmd>>)]
    /\ UNCHANGED <<handles, images, i, processed_img, all_field_boxes, text_fields>>

\* pytesseract.image_to_string for page i, which runs the executable that
\* pytesseract.pytesseract.tesseract_cmd names at that moment
ImageToString(self) ==
    /\ pc[self] = "ocr"
    /\ \/ /\ processed_img[self].ocr_ok
          /\ all_text' = [all_text EXCEPT ![self] = Append(@, processed_img[self].text)]
          /\ Goto(self, "detect")
       \/ /\ ~processed_img[self].ocr_ok
          /\ Raise(self, "PDF processing error")
          /\ UNCHANGED all_text
    /\ external' = [external EXCEPT ![self] =
                       Append(@, <<"image_to_string", i[self], tesseract_cmd>>)]
    /\ UNCHANGED <<handles, images, i, processed_img, all_field_boxes, text_fields>>

\* [(i, box) for box in field_boxes]
Tagged(page_idx, field_boxes) ==
    [k \in 1..Len(field_boxes) |-> <<page_idx, field_boxes[k]>>]

\* _detect_field_boxes for page i, and the step of the page loop
DetectFieldBoxes(self) ==
    /\ pc[self] = "detect"
    /\ LET field_boxes == _detect_field_boxes(processed_img[self]) IN
       all_field_boxes' = [all_field_boxes EXCEPT ![self] =
                              @ \o Tagged(i[self], field_boxes)]
    /\ i' = [i EXCEPT ![self] = @ + 1]
    /\ Goto(self, IF i[self] + 1 < Len(images[self]) THEN "enhance" ELSE "assemble")
    /\ external' = [external EXCEPT ![self] =
                       Append(@, <<"_detect_field_boxes", i[self], "">>)]
    /\ UNCHANGED <<handles, images, processed_img, all_text, text_fields>>

\* the result counting only the pages that yielded a field
Result_counts_pages_with_fields(texts, fields, boxes, n_images) ==
    [form_type |-> _detect_form_type(Join(<<"\n">>, texts)),
     fields |-> _merge_fields(fields, boxes),
     page_count |-> Cardinality({_merge_fields(fields, boxes)[k].page :
                                    k \in 1..Len(_merge_fields(fields, boxes))}),
     text_content |-> texts,
     confidence |-> DOCUMENT_CONFIDENCE]

\* the result taking every document to have at least one page
Result_at_least_one_page(texts, fields, boxes, n_images) ==
    [form_type |-> _detect_form_type(Join(<<"\n">>, texts)),
     fields |-> _merge_fields(fields, boxes),
     page_count |-> IF n_images = 0 THEN 1 ELSE n_images,
     text_content |-> texts,
     confidence |-> DOCUMENT_CONFIDENCE]

\* the result reporting the confidence of the HTML processor
Result_html_confidence(texts, fields, boxes, n_images) ==
    [form_type |-> _detect_form_type(Join(<<"\n">>, texts)),
     fields |-> _merge_fields(fields, boxes),
     page_count |-> n_images,
     text_content |-> texts,
     confidence |-> HTML_CONFIDENCE]

\* the dict extract_fields builds from the locals
Result(texts, fields, boxes, n_images) ==
    [form_type |-> _detect_form_type(Join(<<"\n">>, texts)),
     fields |-> _merge_fields(fields, boxes),
     page_count |-> n_images,
     text_content |-> texts,
     confidence |-> DOCUMENT_CONFIDENCE]

\* after the page loop: _identify_fields, _merge_fields, _detect_form_type, return
Assemble(self) ==
    /\ pc[self] = "assemble"
    /\ \/ /\ ~finditer_raises(all_text[self])
          /\ LET fields == _identify_fields(all_text[self]) IN
             /\ text_fields' = [text_fields EXCEPT ![self] = fields]
             /\ result' = [result EXCEPT ![self] =
                              Result(all_text[self], fields, all_field_boxes[self],
                                     Len(images[self]))]
          /\ pc' = [pc EXCEPT ![self] = "returned"]
          /\ UNCHANGED <<pdf_bytes, error, previous, factory, guessed>>
       \/ /\ finditer_raises(all_text[self])
          /\ Raise(self, "PDF processing error")
          /\ UNCHANGED text_fields
    /\ UNCHANGED <<handles, images, i, processed_img, all_text, all_field_boxes,
                   external>>

\* the call is over: the caller has the result or the exception, and the
\* frame of extract_fields is gone
Finish(self) ==
    /\ pc[self] \in {"returned", "raised"}
    /\ pc' = [pc EXCEPT ![self] = "idle"]
    /\ pdf_bytes' = [pdf_bytes EXCEPT ![self] = NoDocument]
    /\ images' = [images EXCEPT ![self] = <<>>]
    /\ i' = [i EXCEPT ![self] = 0]
    /\ processed_img' = [processed_img EXCEPT ![self] = NoImage]
    /\ all_text' = [all_text EXCEPT ![self] = <<>>]
    /\ all_field_boxes' = [all_field_boxes EXCEPT ![self] = <<>>]
    /\ text_fields' = [text_fields EXCEPT ![self] = <<>>]
    /\ result' = [result EXCEPT ![self] = NoResult]
    /\ error' = [error EXCEPT ![self] = ""]
    /\ previous' = [previous EXCEPT ![self] = NoResult]
    /\ external' = [external EXCEPT ![self] = <<>>]
    /\ UNCHANGED <<handles, factory, guessed>>

\* the caller keeps the result it got and calls extract_fields again with the
\* same bytes; the locals of the finished call are rebound as the new call runs
CallAgain(self) ==
    /\ pc[self] = "returned"
    /\ previous' = [previous EXCEPT ![self] = result[self]]
    /\ result' = [result EXCEPT ![self] = NoResult]
    /\ pc' = [pc EXCEPT ![self] =
                IF pytesseract[self] = "None" THEN "import" ELSE "convert"]
    /\ external' = [external EXCEPT ![self] = <<>>]
    /\ UNCHANGED <<handles, locals, pdf_bytes, error, factory, guessed>>

Step(self) ==
    \/ ExtractFields(self)
    \/ ImportDependencies(self)
    \/ ConvertFromBytes(self)
    \/ EnhanceImage(self)
    \/ ImageToString(self)
    \/ DetectFieldBoxes(self)
    \/ Assemble(self)
    \/ Finish(self)
    \/ CallAgain(self)

\* one processor serving one request after another
Next == Step(1)

Spec == Init /\ [][Next]_vars

\* ------------------------------------------------ two processors at once

\* the documents the two concurrent requests are drawn from: one that poppler
\* cannot read, a page whose OCR fails, and a page with a field and a box
ConcurrentDocuments ==
    {NoDocument,
     [raster_ok |-> TRUE,
      pages |-> <<[enhance_ok |-> TRUE, ocr_ok |-> FALSE, text |-> TEXT_EMPTY,
                   detect_ok |-> TRUE, contours |-> <<>>]>>],
     [raster_ok |-> TRUE,
      pages |-> <<[enhance_ok |-> TRUE, ocr_ok |-> TRUE, text |-> TEXT_NAME_EMAIL,
                   detect_ok |-> TRUE, contours |-> CONTOURS_DRAWN]>>]}

\* a request thread of the web application calling extract_fields on its
\* own processor
Request(self) ==
    /\ ExtractFields(self)
    /\ pdf_bytes'[self] \in ConcurrentDocuments

StepConcurrent(self) ==
    \/ Request(self)
    \/ ImportDependencies(self)
    \/ ConvertFromBytes(self)
    \/ EnhanceImage(self)
    \/ ImageToString(self)
    \/ DetectFieldBoxes(self)
    \/ Assemble(self)
    \/ Finish(self)

\* two processors, each serving its own requests, interleaved step by step
NextConcurrent == \E self \in Procs : StepConcurrent(self)

SpecConcurrent == Init /\ [][NextConcurrent]_vars

\* ------------------------------------------------------------ the factory

HTMLFormProcessor == "HTMLFormProcessor"

PDFFormProcessor == "PDFFormProcessor"

\* "html"
TYPE_HTML == <<"h", "t", "m", "l">>

\* "pdf"
TYPE_PDF == <<"p", "d", "f">>

\* "text/html"
MIME_HTML == <<"t", "e", "x", "t", "/", "h", "t", "m", "l">>

\* "application/pdf"
MIME_PDF == <<"a", "p", "p", "l", "i", "c", "a", "t", "i", "o", "n", "/", "p", "d", "f">>

\* "image/jpeg"
MIME_JPEG == <<"i", "m", "a", "g", "e", "/", "j", "p", "e", "g">>

\* "image/png"
MIME_PNG == <<"i", "m", "a", "g", "e", "/", "p", "n", "g">>

\* "image/tiff"
MIME_TIFF == <<"i", "m", "a", "g", "e", "/", "t", "i", "f", "f">>

\* self._processor_types of FormProcessorFactory.__init__, in the dict's order
\* (register_processor, which would change it, has no caller)
_processor_types ==
    <<[key |-> TYPE_HTML, class |-> HTMLFormProcessor],
      [key |-> TYPE_PDF, class |-> PDFFormProcessor],
      [key |-> MIME_HTML, class |-> HTMLFormProcessor],
      [key |-> MIME_PDF, class |-> PDFFormProcessor],
      [key |-> MIME_JPEG, class |-> PDFFormProcessor],
      [key |-> MIME_PNG, class |-> PDFFormProcessor],
      [key |-> MIME_TIFF, class |-> PDFFormProcessor]>>

\* s.split(sep)[0], for a one-character sep
SplitFirst(s, sep) ==
    IF \E k \in 1..Len(s) : s[k] = sep
    THEN SubSeq(s, 1, Min({k \in 1..Len(s) : s[k] = sep}) - 1)
    ELSE s

\* str(form_type).lower().split(';')[0].strip(), None taken as "html" before
Normalize(form_type) ==
    Strip(SplitFirst(Lower(IF form_type = None THEN TYPE_HTML ELSE form_type), ";"))

\* s.startswith(prefix)
StartsWith(s, prefix) ==
    Len(prefix) <= Len(s) /\ SubSeq(s, 1, Len(prefix)) = prefix

\* the keys equal to the normalized type
ExactMatches(normalized) ==
    {k \in 1..Len(_processor_types) : _processor_types[k].key = normalized}

\* form_type.startswith(processor_type) or processor_type in form_type
PartialMatches(normalized) ==
    {k \in 1..Len(_processor_types) :
        \/ StartsWith(normalized, _processor_types[k].key)
        \/ Contains(normalized, _processor_types[k].key)}

\* get_processor looking the argument up as it is given
processor_class_raw(form_type) ==
    IF ExactMatches(form_type) # {}
    THEN _processor_types[Min(ExactMatches(form_type))].class
    ELSE IF PartialMatches(form_type) # {}
         THEN _processor_types[Min(PartialMatches(form_type))].class
         ELSE HTMLFormProcessor

\* the class get_processor instantiates: the exact match, else the first
\* partial match in the dict's order, else the HTML processor
processor_class(form_type) ==
    IF ExactMatches(Normalize(form_type)) # {}
    THEN _processor_types[Min(ExactMatches(Normalize(form_type)))].class
    ELSE IF PartialMatches(Normalize(form_type)) # {}
         THEN _processor_types[Min(PartialMatches(Normalize(form_type)))].class
         ELSE HTMLFormProcessor

\* "TEXT/HTML"
CT_UPPER_HTML == <<"T", "E", "X", "T", "/", "H", "T", "M", "L">>

\* "PDF"
CT_UPPER_PDF == <<"P", "D", "F">>

\* "  Application/PDF \n"
CT_PADDED_PDF == <<" ", " ", "A", "p", "p", "l", "i", "c", "a", "t", "i", "o", "n", "/", "P",
    "D", "F", " ", "\n">>

\* " html\t"
CT_PADDED_HTML == <<" ", "h", "t", "m", "l", "\t">>

\* "text/html; charset=utf-8"
CT_PARAM_HTML == <<"t", "e", "x", "t", "/", "h", "t", "m", "l", ";", " ", "c", "h", "a", "r",
    "s", "e", "t", "=", "u", "t", "f", "-", "8">>

\* "Application/Pdf ;version=1.7"
CT_PARAM_PDF == <<"A", "p", "p", "l", "i", "c", "a", "t", "i", "o", "n", "/", "P", "d", "f",
    " ", ";", "v", "e", "r", "s", "i", "o", "n", "=", "1", ".", "7">>

\* "text/plain"
CT_PLAIN == <<"t", "e", "x", "t", "/", "p", "l", "a", "i", "n">>

\* "application/x-pdf"
CT_XPDF == <<"a", "p", "p", "l", "i", "c", "a", "t", "i", "o", "n", "/", "x", "-", "p",
    "d", "f">>

\* "image/gif"
CT_GIF == <<"i", "m", "a", "g", "e", "/", "g", "i", "f">>

\* ""
CT_EMPTY == <<>>

\* the arguments callers give get_processor
ContentTypes ==
    {None, TYPE_HTML, TYPE_PDF, MIME_HTML, MIME_PDF, MIME_JPEG, MIME_PNG, MIME_TIFF,
     CT_UPPER_HTML, CT_UPPER_PDF, CT_PADDED_PDF, CT_PADDED_HTML, CT_PARAM_HTML,
     CT_PARAM_PDF, CT_PLAIN, CT_XPDF, CT_GIF, CT_EMPTY}

\* the calls of get_processor a run makes
MaxCalls == 3

\* the processor constructed by the n-th instantiation
NewProcessor(class, n) ==
    IF class = "ValueError"
    THEN [class |-> "None", id |-> 0, raised |-> "ValueError"]
    ELSE [class |-> class, id |-> n, raised |-> ""]

\* factory.get_processor(form_type): a new instance of the class at each call
GetProcessor ==
    /\ Len(returned) < MaxCalls
    /\ \E form_type \in ContentTypes :
          /\ content_type' = form_type
          /\ processor' = NewProcessor(processor_class(form_type), Len(returned) + 1)
    /\ returned' = Append(returned, processor')
    /\ UNCHANGED <<handles, locals, pc, pdf_bytes, result, error, previous, guessed,
                   external>>

NextFactory == GetProcessor

SpecFactory == Init /\ [][NextFactory]_vars

\* -------------------------------------------- the type guesser on its own

\* "password"
FIELD_PASSWORD == <<"p", "a", "s", "s", "w", "o", "r", "d">>

\* "Password"
FIELD_PASSWORD_CAPITAL == <<"P", "a", "s", "s", "w", "o", "r", "d">>

\* "EMAIL"
FIELD_EMAIL_UPPER == <<"E", "M", "A", "I", "L">>

\* "Phone"
FIELD_PHONE_CAPITAL == <<"P", "h", "o", "n", "e">>

\* "zip"
FIELD_ZIP == <<"z", "i", "p">>

\* ""
FIELD_EMPTY == <<>>

\* "checkbox"
FIELD_CHECKBOX == <<"c", "h", "e", "c", "k", "b", "o", "x">>

\* "date of birth"
FIELD_DATE_OF_BIRTH == <<"d", "a", "t", "e", " ", "o", "f", " ", "b", "i", "r", "t", "h">>

\* the names _guess_field_type is given: the keys of field_patterns and others
FieldNames ==
    {rule_name_chars[field_patterns[r].name] : r \in 1..Len(field_patterns)}
    \cup {FIELD_PASSWORD, FIELD_PASSWORD_CAPITAL, FIELD_EMAIL_UPPER, FIELD_PHONE_CAPITAL,
          FIELD_ZIP, FIELD_EMPTY, FIELD_CHECKBOX, FIELD_DATE_OF_BIRTH}

\* the calls of _guess_field_type a run makes
MaxGuesses == 2

\* processor._guess_field_type(field_name)
GuessFieldType ==
    /\ Len(guessed) < MaxGuesses
    /\ \E field_name \in FieldNames :
          guessed' = Append(guessed, [field_name |-> field_name,
                                      type |-> _guess_field_type(field_name)])
    /\ UNCHANGED <<handles, locals, pc, pdf_bytes, result, error, previous, factory,
                   external>>

NextGuesser == GuessFieldType

SpecGuesser == Init /\ [][NextGuesser]_vars

\* ------------------------------------------------- spatial correspondence

\* the estimated height of one text line, in pixels
LINE_HEIGHT == 40

\* the line of a text on which the character at a 0-based offset lies
LineOf(text, offset) == Cardinality({k \in 1..offset : text[k] = "\n"})

\* the vertical position a text candidate implies: the middle of its line
ImpliedY(field, texts) ==
    LineOf(texts[field.page], field.position[1]) * LINE_HEIGHT + LINE_HEIGHT \div 2

\* the vertical centre of a box <<x, y, w, h>>
CentreY(box) == box[2] + box[4] \div 2

\* a box of page page_idx corresponds to a text candidate: same page, and the
\* box's vertical centre within one line height of the candidate's position
SpatiallyCorresponds(page_idx, box, field, texts) ==
    /\ field.page = page_idx + 1
    /\ CentreY(box) - ImpliedY(field, texts) <= LINE_HEIGHT
    /\ ImpliedY(field, texts) - CentreY(box) <= LINE_HEIGHT

\* the box corresponds to some text candidate
HasCorrespondence(page_idx, box, fields, texts) ==
    \E k \in 1..Len(fields) : SpatiallyCorresponds(page_idx, box, fields[k], texts)

\* ------------------------------------------------------------------ claims

Returned(self) == pc[self] = "returned"

IsVisualOnly(field) == "dimensions" \in DOMAIN field

CountOnPage(fields, page) == Cardinality({k \in 1..Len(fields) : fields[k].page = page})

\* the boxes of all_field_boxes on a page that correspond to no text candidate
UnmatchedBoxes(self, page) ==
    {k \in 1..Len(all_field_boxes[self]) :
        /\ all_field_boxes[self][k][1] + 1 = page
        /\ ~HasCorrespondence(all_field_boxes[self][k][1], all_field_boxes[self][k][2],
                              text_fields[self], all_text[self])}

\* C1: a visual box is suppressed only when it spatially corresponds to a text
\* candidate of its page: every box that corresponds to none is appended to the
\* merged fields as an unlabeled field, whatever other text fields the page has.
C1_BoxKeptUnlessCorresponding ==
    \A self \in Procs : Returned(self) =>
        \A k \in 1..Len(all_field_boxes[self]) :
            LET page_idx == all_field_boxes[self][k][1]
                box == all_field_boxes[self][k][2]
            IN  ~HasCorrespondence(page_idx, box, text_fields[self], all_text[self])
                => \E m \in 1..Len(result[self].fields) :
                      result[self].fields[m] = BoxField(page_idx, box)

\* C2: for every page, the merged fields of the page are at most its text
\* candidates plus its boxes that correspond to no text candidate.
C2_DeduplicationInvariant ==
    \A self \in Procs : Returned(self) =>
        \A page \in 1..Len(images[self]) :
            CountOnPage(result[self].fields, page)
                <= CountOnPage(text_fields[self], page)
                   + Cardinality(UnmatchedBoxes(self, page))

\* C2's case: a page with a box beside a text candidate, and a result for it
C2_Witness ==
    \E self \in Procs :
        /\ Returned(self)
        /\ \E k \in 1..Len(all_field_boxes[self]) :
              HasCorrespondence(all_field_boxes[self][k][1], all_field_boxes[self][k][2],
                                text_fields[self], all_text[self])

\* what a page contributes when its preprocessing or OCR failure is contained
ToleratedPage(image) ==
    IF image.enhance_ok /\ image.ocr_ok
    THEN image
    ELSE [image EXCEPT !.text = <<>>, !.contours = <<>>]

ToleratedTexts(pages) == [k \in 1..Len(pages) |-> ToleratedPage(pages[k]).text]

RECURSIVE ToleratedBoxes(_, _)
ToleratedBoxes(pages, k) ==
    IF k > Len(pages) THEN <<>>
    ELSE Tagged(k - 1, _detect_field_boxes(ToleratedPage(pages[k])))
         \o ToleratedBoxes(pages, k + 1)

SomePageFails(pages) ==
    \E k \in 1..Len(pages) : ~pages[k].enhance_ok \/ ~pages[k].ocr_ok

\* C3: when preprocessing or OCR of a page fails (the libraries are imported
\* and the rasterizer has returned the page images), the call does not end
\* with an exception: it returns, the failing page contributes no candidates
\* and the fields of every other page are in the result.
C3_PageFailureContained ==
    \A self \in Procs :
        (pc[self] \in {"returned", "raised"} /\ SomePageFails(images[self]))
        => /\ pc[self] = "returned"
           /\ result[self].fields =
                 _merge_fields(_identify_fields(ToleratedTexts(images[self])),
                               ToleratedBoxes(images[self], 1))

\* C4: every field of a returned result has its page within 1..page_count.
C4_FieldPageInRange ==
    \A self \in Procs : Returned(self) =>
        \A k \in 1..Len(result[self].fields) :
            /\ 1 <= result[self].fields[k].page
            /\ result[self].fields[k].page <= result[self].page_count

\* C4's case: a result with a text-sourced field of the first page and a
\* visual-only field of the last
C4_Witness ==
    \E self \in Procs :
        /\ Returned(self)
        /\ result[self].page_count = 2
        /\ \E k, m \in 1..Len(result[self].fields) :
              /\ IsVisualOnly(result[self].fields[k])
              /\ result[self].fields[k].page = 2
              /\ ~IsVisualOnly(result[self].fields[m])
              /\ result[self].fields[m].page = 1

\* C5: page_count of a returned result is the number of page images the
\* rasterizer returned, whatever the pages yielded.
C5_PageCountIsImages ==
    \A self \in Procs : Returned(self) =>
        result[self].page_count = Len(pdf_bytes[self].pages)

\* C5's case: two page images, one with fields, one with failed detection and
\* no field at all
C5_Witness ==
    \E self \in Procs :
        /\ Returned(self)
        /\ Len(pdf_bytes[self].pages) = 2
        /\ result[self].page_count = 2
        /\ ~pdf_bytes[self].pages[2].detect_ok
        /\ result[self].fields # <<>>
        /\ \A k \in 1..Len(result[self].fields) : result[self].fields[k].page = 1

\* C6: every confidence is within [0, 1] (0..10 tenths), text-sourced fields
\* carry 0.7 and visual-only fields 0.5, so a visual-only field is strictly
\* below every text-sourced field of the document.
C6_FieldConfidence ==
    \A self \in Procs : Returned(self) =>
        \A k \in 1..Len(result[self].fields) :
            LET f == result[self].fields[k] IN
            /\ 0 <= f.confidence /\ f.confidence <= 10
            /\ (k <= Len(text_fields[self])) => (~IsVisualOnly(f) /\ f.confidence = 7)
            /\ (k > Len(text_fields[self])) => (IsVisualOnly(f) /\ f.confidence = 5)
            /\ \A m \in 1..Len(result[self].fields) :
                  (IsVisualOnly(f) /\ ~IsVisualOnly(result[self].fields[m]))
                  => f.confidence < result[self].fields[m].confidence

\* C6's case: a result with fields of both sources
C6_Witness ==
    \E self \in Procs :
        /\ Returned(self)
        /\ \E k, m \in 1..Len(result[self].fields) :
              /\ IsVisualOnly(result[self].fields[k])
              /\ ~IsVisualOnly(result[self].fields[m])

\* the lower-cased text of the whole document that the classifier reads
DocumentText(self) == Lower(Join(<<"\n">>, all_text[self]))

\* the categories in the priority order of the classifier's contract
CategoryPriority ==
    <<"tax", "medical", "employment", "banking", "immigration", "consent", "application">>

\* the pattern of the k-th category of CategoryPriority matches the text
CategoryMatches(k, text_lower) ==
    \E c \in 1..Len(form_type_patterns) :
        /\ form_type_patterns[c].name = CategoryPriority[k]
        /\ search(c, text_lower)

\* C7: the classifier returns the earliest category, in the order tax, medical,
\* employment, banking, immigration, consent, application, whose pattern matches
\* the text, whichever later categories match as well.
C7_FirstMatchInPriorityOrder ==
    \A self \in Procs : Returned(self) =>
        \A k \in 1..Len(CategoryPriority) :
            (result[self].form_type = CategoryPriority[k])
            <=> /\ CategoryMatches(k, DocumentText(self))
                /\ \A j \in 1..(k - 1) : ~CategoryMatches(j, DocumentText(self))

\* C7's case: a text three categories match, the earliest of them in priority
\* being the last in the text
C7_Witness ==
    \E self \in Procs :
        /\ Returned(self)
        /\ all_text[self] = <<TEXT_BANKING, TEXT_PATIENT>>
        /\ CategoryMatches(2, DocumentText(self))
        /\ CategoryMatches(3, DocumentText(self))
        /\ CategoryMatches(4, DocumentText(self))
        /\ result[self].form_type = "medical"

\* C8: a text with a banking keyword and no tax, medical or employment keyword
\* is classified as banking.
C8_BankingScenario ==
    \A self \in Procs : Returned(self) =>
        ((/\ CategoryMatches(4, DocumentText(self))
          /\ ~CategoryMatches(1, DocumentText(self))
          /\ ~CategoryMatches(2, DocumentText(self))
          /\ ~CategoryMatches(3, DocumentText(self)))
         => result[self].form_type = "banking")

\* C8's case: "routing number" and "direct deposit" beside keywords of the later
\* categories immigration and application
C8_Witness ==
    \E self \in Procs :
        /\ Returned(self)
        /\ all_text[self] = <<TEXT_PASSPORT, TEXT_BANKING>>
        /\ CategoryMatches(5, DocumentText(self))
        /\ result[self].form_type = "banking"

\* C9: a text no category's pattern matches, the empty text included, is
\* classified as the generic fallback and as none of the named categories.
C9_GenericFallback ==
    \A self \in Procs : Returned(self) =>
        ((\A k \in 1..Len(CategoryPriority) : ~CategoryMatches(k, DocumentText(self)))
         => /\ result[self].form_type = "generic_form"
            /\ \A k \in 1..Len(CategoryPriority) :
                  result[self].form_type # CategoryPriority[k])

\* C9's case: the empty text of a document of one blank page
C9_Witness ==
    \E self \in Procs :
        /\ Returned(self)
        /\ all_text[self] = <<TEXT_EMPTY>>
        /\ result[self].form_type = "generic_form"

\* C10: the one page "Full Name: John Smith\nEmail Address: john@example.com"
\* with no box yields exactly two merged fields, name and email.
C10_ScenarioA ==
    \A self \in Procs :
        (Returned(self) /\ all_text[self] = <<TEXT_NAME_EMAIL>>
                        /\ all_field_boxes[self] = <<>>)
        => result[self].fields =
              <<[name |-> "name", label |-> "Full Name", type |-> "text",
                 value |-> "John Smith", page |-> 1, position |-> <<0>>,
                 required |-> FALSE, confidence |-> 7],
                [name |-> "email", label |-> "Email Address", type |-> "email",
                 value |-> "john@example.com", page |-> 1, position |-> <<22>>,
                 required |-> FALSE, confidence |-> 7]>>

\* C11: a page whose text is "Signature *" (followed by a second line) yields
\* a field of the signature rule, on that page, with required = TRUE.
C11_RequiredDetection ==
    \A self \in Procs : Returned(self) =>
        \A p \in 1..Len(all_text[self]) :
            all_text[self][p] = TEXT_SIGNATURE
            => \E k \in 1..Len(result[self].fields) :
                  /\ result[self].fields[k].name = "signature"
                  /\ result[self].fields[k].page = p
                  /\ result[self].fields[k].required = TRUE

\* the merged field C12 states for a box of a 0-based page
UnlabeledField(page_idx, box) ==
    [name |-> "field_" \o ToString(page_idx) \o "_" \o ToString(box[1])
                 \o "_" \o ToString(box[2]),
     label |-> "Unlabeled Field (page " \o ToString(page_idx + 1) \o ")",
     type |-> "text",
     page |-> page_idx + 1,
     position |-> <<box[1], box[2]>>,
     dimensions |-> <<box[3], box[4]>>,
     required |-> FALSE,
     confidence |-> 5]

\* C12: every visual box of page N that corresponds to no text candidate
\* yields exactly one merged field, labelled "Unlabeled Field (page N)", of
\* kind text, confidence 0.5, not required, page N, with the box's dimensions.
C12_UnlabeledField ==
    \A self \in Procs : Returned(self) =>
        \A k \in 1..Len(all_field_boxes[self]) :
            LET page_idx == all_field_boxes[self][k][1]
                box == all_field_boxes[self][k][2]
            IN  ~HasCorrespondence(page_idx, box, text_fields[self], all_text[self])
                => Cardinality({m \in 1..Len(result[self].fields) :
                                   result[self].fields[m] = UnlabeledField(page_idx, box)})
                   = 1

CallOver(self) == pc[self] \in {"returned", "raised"}

\* C13: when the libraries are there and the rasterizer fails on the bytes,
\* the call reports the failure to the caller and its outcome exposes
\* page_count = 0, no fields and the generic form type.
C13_RasterizationFailure ==
    \A self \in Procs :
        (CallOver(self) /\ pytesseract[self] # "None" /\ ~pdf_bytes[self].raster_ok)
        => /\ error[self] # ""
           /\ result[self].page_count = 0
           /\ result[self].fields = <<>>
           /\ result[self].form_type = "generic_form"

\* C14: when the rasterizer yields no page image, the result has no fields,
\* the generic form type and page_count 0.
C14_ZeroPages ==
    \A self \in Procs :
        (Returned(self) /\ images[self] = <<>>)
        => /\ result[self].fields = <<>>
           /\ result[self].form_type = "generic_form"
           /\ result[self].page_count = 0

\* C14's case: the rasterizer read the bytes and found no page
C14_Witness ==
    \E self \in Procs :
        /\ Returned(self)
        /\ pdf_bytes[self].raster_ok
        /\ pdf_bytes[self].pages = <<>>
        /\ result[self].page_count = 0

MissingDependencies ==
    "PDF processing requires additional dependencies: pytesseract, pdf2image, opencv-python"

\* C15: a call that is past its import with the libraries unavailable has
\* ended with the missing-dependencies error, before any rasterization, OCR
\* or per-page work, and without a result.
C15_MissingCapability ==
    \A self \in Procs :
        (pc[self] \notin {"idle", "import"} /\ pytesseract[self] = "None")
        => /\ pc[self] = "raised"
           /\ error[self] = MissingDependencies
           /\ result[self] = NoResult
           /\ images[self] = <<>>
           /\ i[self] = 0
           /\ all_text[self] = <<>>
           /\ all_field_boxes[self] = <<>>

\* C15's case: a readable two-page document given to a processor whose import fails
C15_Witness ==
    \E self \in Procs :
        /\ pc[self] = "raised"
        /\ pytesseract[self] = "None"
        /\ error[self] = MissingDependencies
        /\ pdf_bytes[self].raster_ok
        /\ Len(pdf_bytes[self].pages) = 2

\* C16: a call repeated on the same processor with the same bytes, the
\* rasterizer's and the OCR's outputs held fixed, returns the result the call
\* before it returned: form_type, fields in order, page_count, confidence.
C16_Idempotence ==
    \A self \in Procs :
        (Returned(self) /\ previous[self] # NoResult)
        => /\ result[self] = previous[self]
           /\ result[self].form_type = previous[self].form_type
           /\ result[self].fields = previous[self].fields
           /\ result[self].page_count = previous[self].page_count
           /\ result[self].confidence = previous[self].confidence

\* C16's case: a repeated call has returned for a two-page document with text
\* fields and boxes
C16_Witness ==
    \E self \in Procs :
        /\ Returned(self)
        /\ previous[self] # NoResult
        /\ Len(images[self]) = 2
        /\ \E k \in 1..Len(result[self].fields) : IsVisualOnly(result[self].fields[k])
        /\ \E k \in 1..Len(result[self].fields) : ~IsVisualOnly(result[self].fields[k])

\* C17: a returned result has form_type, fields (a list), page_count and
\* confidence; the confidence is 0.7 for every document, which lies in [0, 1]
\* and strictly below the confidence of an HTML processor's result.
C17_DocumentConfidence ==
    \A self \in Procs : Returned(self) =>
        /\ {"form_type", "fields", "page_count", "confidence"} \subseteq DOMAIN result[self]
        /\ DOMAIN result[self].fields = 1..Len(result[self].fields)
        /\ result[self].confidence = 7
        /\ 0 <= result[self].confidence
        /\ result[self].confidence <= 10
        /\ result[self].confidence < _extract_form_fields(<<>>).confidence

\* C17's case: a returned result with fields of both sources
C17_Witness ==
    \E self \in Procs :
        /\ Returned(self)
        /\ \E k \in 1..Len(result[self].fields) : IsVisualOnly(result[self].fields[k])
        /\ \E k \in 1..Len(result[self].fields) : ~IsVisualOnly(result[self].fields[k])
        /\ result[self].confidence = 7

Called == processor # NoProcessor

\* content types that name neither an HTML nor a PDF form
UnsupportedTypes == {MIME_JPEG, CT_GIF, CT_PLAIN}

\* C18: get_processor raises ValueError for an unsupported content type, such
\* as "image/jpeg", and returns no processor for it.
C18_UnsupportedRaises ==
    (Called /\ content_type \in UnsupportedTypes)
    => /\ processor.raised = "ValueError"
       /\ processor.class = "None"

AllWhitespace(s) == \A k \in 1..Len(s) : s[k] \in Whitespace

\* raw is base up to letter case, surrounding whitespace and parameters
\* after a ';'
IsSpellingOf(raw, base) ==
    \E a \in 0..Len(raw) : \E b \in a..Len(raw) : \E c \in b..Len(raw) :
        /\ AllWhitespace(SubSeq(raw, 1, a))
        /\ Lower(SubSeq(raw, a + 1, b)) = base
        /\ AllWhitespace(SubSeq(raw, b + 1, c))
        /\ (c = Len(raw) \/ raw[c + 1] = ";")

SupportedTypes ==
    {[key |-> TYPE_HTML, class |-> "HTMLFormProcessor"],
     [key |-> MIME_HTML, class |-> "HTMLFormProcessor"],
     [key |-> TYPE_PDF, class |-> "PDFFormProcessor"],
     [key |-> MIME_PDF, class |-> "PDFFormProcessor"]}

\* C19: "html" and "text/html" give an HTMLFormProcessor, "pdf" and
\* "application/pdf" a PDFFormProcessor, whatever the letter case, the
\* surrounding whitespace and the parameters after ';', and no two calls
\* return the same instance.
C19_SupportedTypes ==
    /\ Called =>
          \A t \in SupportedTypes :
              IsSpellingOf(content_type, t.key)
              => processor.class = t.class /\ processor.raised = ""
    /\ \A j, k \in 1..Len(returned) :
          (j # k /\ returned[j].raised = "" /\ returned[k].raised = "")
          => returned[j].id # returned[k].id

\* C19's case: "Application/Pdf ;version=1.7" asked after another PDF type
C19_Witness ==
    /\ Called
    /\ content_type = CT_PARAM_PDF
    /\ processor.class = "PDFFormProcessor"
    /\ Len(returned) >= 2
    /\ returned[1].class = "PDFFormProcessor"
    /\ returned[1].id # processor.id

\* C20: the fields of a returned result are in page order: of any two
\* fields, the earlier one in the list is of the same or an earlier page.
C20_PageOrder ==
    \A self \in Procs : Returned(self) =>
        \A j, k \in 1..Len(result[self].fields) :
            j < k => result[self].fields[j].page <= result[self].fields[k].page

\* C21: every field of a returned result carries name, label, type, value,
\* page, position, required and confidence, and carries dimensions only if
\* it comes from a box of all_field_boxes.
C21_FieldKeys ==
    \A self \in Procs : Returned(self) =>
        \A k \in 1..Len(result[self].fields) :
            LET field == result[self].fields[k] IN
            /\ {"name", "label", "type", "value", "page", "position", "required",
                "confidence"} \subseteq DOMAIN field
            /\ "dimensions" \in DOMAIN field
               => \E b \in 1..Len(all_field_boxes[self]) :
                     /\ all_field_boxes[self][b][1] + 1 = field.page
                     /\ field.dimensions = <<all_field_boxes[self][b][2][3],
                                             all_field_boxes[self][b][2][4]>>

\* the place of a rule in the catalog
RuleIndex(name) == CHOOSE r \in 1..Len(field_patterns) : field_patterns[r].name = name

\* the text candidates of a rule on a page, as places in the candidate list
CandidatesOf(fields, page, r) ==
    {k \in 1..Len(fields) :
        fields[k].page = page /\ fields[k].name = field_patterns[r].name}

\* page, rule and offset of the earlier candidate come before the later one's
ComesBefore(f, g) ==
    \/ f.page < g.page
    \/ /\ f.page = g.page
       /\ \/ RuleIndex(f.name) < RuleIndex(g.name)
          \/ /\ RuleIndex(f.name) = RuleIndex(g.name)
             /\ f.position[1] < g.position[1]

BoxesOfPage(self, page) ==
    {all_field_boxes[self][k][2] :
        k \in {j \in 1..Len(all_field_boxes[self]) : all_field_boxes[self][j][1] + 1 = page}}

\* C23: on a page where detection works, a contour's bounding rectangle is
\* among the page's boxes exactly when the contour has 4 vertices,
\* 50 < width < 500, 15 < height < 80 and width > height, and the page has no
\* other box; the 20x10 region and the rectangles of width 50 or 500 or
\* height 15 or 80 give no box.
C23_DetectorBounds ==
    \A self \in Procs : Returned(self) =>
        \A page \in 1..Len(images[self]) :
            images[self][page].detect_ok =>
                LET contours == images[self][page].contours IN
                /\ \A c \in 1..Len(contours) :
                      contours[c].rect \in BoxesOfPage(self, page)
                      <=> /\ contours[c].vertices = 4
                          /\ 50 < contours[c].rect[3] /\ contours[c].rect[3] < 500
                          /\ 15 < contours[c].rect[4] /\ contours[c].rect[4] < 80
                          /\ contours[c].rect[3] > contours[c].rect[4]
                /\ BoxesOfPage(self, page)
                      \subseteq {contours[c].rect : c \in 1..Len(contours)}
                /\ \A box \in BoxesOfPage(self, page) :
                      /\ <<box[3], box[4]>> # <<20, 10>>
                      /\ box[3] \notin {50, 500}
                      /\ box[4] \notin {15, 80}

\* C23's case: a page with the contours on and around the limits, of which
\* the four within the limits are its boxes
C23_Witness ==
    \E self \in Procs :
        /\ Returned(self)
        /\ Len(images[self]) = 1
        /\ images[self][1].detect_ok
        /\ \E c \in 1..Len(images[self][1].contours) :
              images[self][1].contours[c] = CONTOUR_W500
        /\ BoxesOfPage(self, 1) = {CONTOUR_NEAR.rect, CONTOUR_FAR.rect,
                                   CONTOUR_SMALLEST.rect, CONTOUR_LARGEST.rect}

\* the type C24 states for a name, the name taken in lower case
ClaimedType(field_name) ==
    LET key == Str(Lower(field_name)) IN
    CASE key = "email" -> "email"
      [] key = "phone" -> "tel"
      [] key = "date" -> "date"
      [] key = "income" -> "number"
      [] key = "gender" -> "select"
      [] OTHER -> "text"

\* C24: email maps to "email", phone to "tel", date to "date", income to
\* "number", gender to "select" and every other name to "text".
C24_TypeGuesser ==
    \A k \in 1..Len(guessed) : guessed[k].type = ClaimedType(guessed[k].field_name)

\* C24 as amended: as above, with password mapping to "password"; the name is
\* taken in lower case, every call returns one of the six types, and a name
\* given twice gets the same type.
C24_TypeGuesserAmended ==
    /\ \A k \in 1..Len(guessed) :
          /\ guessed[k].type =
                IF Str(Lower(guessed[k].field_name)) = "password"
                THEN "password"
                ELSE ClaimedType(guessed[k].field_name)
          /\ guessed[k].type \in {"email", "tel", "date", "number", "select",
                                  "password", "text"}
    /\ \A j, k \in 1..Len(guessed) :
          guessed[j].field_name = guessed[k].field_name
          => guessed[j].type = guessed[k].type

\* C24's case: "Password" and an unknown name have been guessed
C24_Witness ==
    /\ Len(guessed) = 2
    /\ guessed[1] = [field_name |-> FIELD_PASSWORD_CAPITAL, type |-> "password"]
    /\ guessed[2] = [field_name |-> FIELD_ZIP, type |-> "text"]

\* the OCR calls an extract_fields call of processor p has made
OcrCalls(p) ==
    {k \in 1..Len(external[p]) : external[p][k][1] = "image_to_string"}

\* C25: for any interleaving of two extract_fields requests on two processors
\* configured with different tesseract paths, the external calls each request
\* makes are the ones it makes alone: its OCR runs the tesseract executable
\* its own processor was configured with.
C25_NoSharedState ==
    \A p \in Procs : \A k \in OcrCalls(p) :
        external[p][k][3] = tesseract_path[p]

\* detection is the only thing that fails in the call: the libraries are
\* there, poppler reads the bytes, every page is preprocessed and read, and
\* every page text is a str
OnlyDetectionFails(self) ==
    /\ pytesseract[self] # "None"
    /\ pdf_bytes[self].raster_ok
    /\ ~SomePageFails(pdf_bytes[self].pages)
    /\ \A page \in 1..Len(pdf_bytes[self].pages) :
          pdf_bytes[self].pages[page].text # TEXT_BYTES
    /\ \E page \in 1..Len(pdf_bytes[self].pages) : ~pdf_bytes[self].pages[page].detect_ok

\* C26: when visual field detection fails on a page and is the only failure
\* of the call, extract_fields does not raise: it returns, the page
\* contributes no visual box, the text candidates
\* of all pages (that page's too) are found, every other page contributes its
\* boxes, and the result's fields are the merge of those.
C26_DetectionFailureContained ==
    \A self \in Procs :
        CallOver(self) /\ OnlyDetectionFails(self) =>
            LET pages == pdf_bytes[self].pages IN
            /\ Returned(self)
            /\ all_text[self] = [page \in 1..Len(pages) |-> pages[page].text]
            /\ text_fields[self] = _identify_fields(all_text[self])
            /\ \A page \in 1..Len(pages) :
                  BoxesOfPage(self, page) =
                      IF pages[page].detect_ok
                      THEN {pages[page].contours[c].rect :
                              c \in {j \in 1..Len(pages[page].contours) :
                                        KeepsContour(pages[page].contours[j])}}
                      ELSE {}
            /\ result[self].fields =
                  _merge_fields(text_fields[self], all_field_boxes[self])

\* C26's case: detection fails on the first page, which has a field in its
\* text and contours on its image, and works on the second, which has boxes
C26_Witness ==
    \E self \in Procs :
        /\ Returned(self)
        /\ OnlyDetectionFails(self)
        /\ Len(images[self]) = 2
        /\ ~images[self][1].detect_ok
        /\ images[self][1].contours # <<>>
        /\ \E f \in 1..Len(text_fields[self]) : text_fields[self][f].page = 1
        /\ images[self][2].detect_ok
        /\ BoxesOfPage(self, 2) # {}

\* matching raises on a page of the call and nothing else fails: the
\* libraries are there, poppler reads the bytes, every page is preprocessed
\* and read
OnlyMatchingFails(self) ==
    /\ pytesseract[self] # "None"
    /\ pdf_bytes[self].raster_ok
    /\ ~SomePageFails(pdf_bytes[self].pages)
    /\ \E page \in 1..Len(pdf_bytes[self].pages) :
          pdf_bytes[self].pages[page].text = TEXT_BYTES

\* the page texts with nothing in place of those matching raises on
MatchableTexts(pages) ==
    [page \in 1..Len(pages) |->
        IF pages[page].text = TEXT_BYTES THEN <<>> ELSE pages[page].text]

Invocations(p, callee, page) ==
    Cardinality({k \in 1..Len(external[p]) :
                   external[p][k][1] = callee /\ external[p][k][2] = page})

\* C28: within one extract_fields call the rasterizer is invoked at most
\* once, and preprocessing, OCR and visual detection at most once per page,
\* whether or not any of them fails: nothing is retried.
C28_NoRetry ==
    \A self \in Procs :
        /\ Invocations(self, "convert_from_bytes", 0) <= 1
        /\ \A page \in 0..MaxPages :
              /\ Invocations(self, "_enhance_image", page) <= 1
              /\ Invocations(self, "image_to_string", page) <= 1
              /\ Invocations(self, "_detect_field_boxes", page) <= 1
        /\ \A k \in 1..Len(external[self]) :
              external[self][k][1] \in {"convert_from_bytes", "_enhance_image",
                                       "image_to_string", "_detect_field_boxes"}

\* C28's case: a call that raised because the OCR of its second page failed,
\* having invoked the rasterizer once, everything once on the first page, and
\* preprocessing and the OCR once on the second
C28_Witness ==
    \E self \in Procs :
        /\ pc[self] = "raised"
        /\ error[self] = "PDF processing error"
        /\ i[self] = 1
        /\ ~processed_img[self].ocr_ok
        /\ Invocations(self, "convert_from_bytes", 0) = 1
        /\ Invocations(self, "_enhance_image", 0) = 1
        /\ Invocations(self, "image_to_string", 0) = 1
        /\ Invocations(self, "_detect_field_boxes", 0) = 1
        /\ Invocations(self, "_enhance_image", 1) = 1
        /\ Invocations(self, "image_to_string", 1) = 1
        /\ Invocations(self, "_detect_field_boxes", 1) = 0

\* the fields of a merged list after its first n
AddedFields(merged, n) == SubSeq(merged, n + 1, Len(merged))

\* the boxes, in input order, whose field is among the added fields
BoxesAdded(field_boxes, added) ==
    SelectSeq(field_boxes,
              LAMBDA b : \E k \in 1..Len(added) : added[k] = BoxField(b[1], b[2]))

\* C29: _merge_fields neither mutates nor reorders its text candidates: its
\* output begins with the text candidates, unchanged and in their order; the
\* two input lists are as they were (the candidates the matcher gave, the
\* boxes the detector gave); and every added field is a visual-only field
\* that comes after that prefix, in the order of its box in the input.
C29_MergerKeepsPrefix ==
    \A self \in Procs : Returned(self) =>
        LET merged == result[self].fields
            n == Len(text_fields[self])
            added == AddedFields(merged, n)
            boxes == BoxesAdded(all_field_boxes[self], added)
        IN  /\ n <= Len(merged)
            /\ SubSeq(merged, 1, n) = text_fields[self]
            /\ text_fields[self] = _identify_fields(all_text[self])
            /\ all_field_boxes[self] = ToleratedBoxes(images[self], 1)
            /\ \A k \in 1..Len(added) : IsVisualOnly(added[k])
            /\ added = [k \in 1..Len(boxes) |-> BoxField(boxes[k][1], boxes[k][2])]

\* C29's case: a merge of text candidates with boxes of which several are
\* added as visual-only fields
C29_Witness ==
    \E self \in Procs :
        /\ Returned(self)
        /\ Len(text_fields[self]) >= 2
        /\ Len(result[self].fields) >= Len(text_fields[self]) + 2
        /\ Len(all_field_boxes[self]) > Len(result[self].fields) - Len(text_fields[self])

\* the four library handles of processor p
Handles(p) == <<pytesseract[p], pdf2image[p], cv2[p], np[p]>>

AllUnset(p) == Handles(p) = <<"None", "None", "None", "None">>

AllSet(p) == Handles(p) = <<"module", "module", "module", "module">>

\* C30: lazy dependency loading is all-or-nothing. In every reachable state
\* the four handles of a processor are all unset or all set. A failed import
\* leaves all four unset, and a call that starts with them unset attempts the
\* import. Once they are set they stay set, and no later call imports again:
\* a call that starts with them set goes straight to the rasterizer.
C30_LazyImportAllOrNothing ==
    /\ [](\A self \in Procs : AllUnset(self) \/ AllSet(self))
    /\ [][\A self \in Procs :
            /\ (pc[self] = "import" /\ pc'[self] = "raised") => AllUnset(self)'
            /\ (pc[self] \in {"idle", "returned"} /\ pc'[self] \in {"import", "convert"})
                  => pc'[self] = IF AllUnset(self) THEN "import" ELSE "convert"
            /\ AllSet(self) => AllSet(self)' /\ pc'[self] # "import"]_vars

\* C30's case: a call whose import failed, with the four handles still unset
C30_Witness ==
    \E self \in Procs :
        /\ pc[self] = "raised"
        /\ error[self] = MissingDependencies
        /\ AllUnset(self)
        /\ external[self] = <<>>

====
